---- MODULE Spec2Model ----
(***************************************************************************)
(* Model of api4/team_local.go (localInviteUsersToTeam and the domain      *)
(* restriction matcher isEmailAddressAllowed / normalizeDomains) and of    *)
(* api4/resolver_team_member.go (the teamMember graphQL resolvers).        *)
(*                                                                         *)
(* Go strings are modelled as sequences of one-character strings, so that  *)
(* lower-casing, splitting, joining and suffix tests are computed and not  *)
(* assumed.                                                                *)
(***************************************************************************)
EXTENDS Integers, Sequences, FiniteSets, TLC

VARIABLES
    \* ---- isEmailAddressAllowed called on its own
    mEmail,        \* argument email
    mRules,        \* argument allowedDomains ([]string)
    mPc,           \* "ready" before the call, "done" after it
    mResult,       \* the returned bool
    \* ---- one request handled by localInviteUsersToTeam
    teamIdValid,   \* c.Params.TeamId is a valid id (decides c.RequireTeamId)
    enableInvites, \* *c.App.Config().ServiceSettings.EnableEmailInvitations
    restrictDomains, \* *c.App.Config().TeamSettings.RestrictCreationToDomains
    teamDomains,   \* AllowedDomains of the stored team
    reqBody,       \* model.ArrayFromJSON(r.Body)
    reqGraceful,   \* r.URL.Query().Get("graceful")
    pc,            \* "ready" before the handler ran, "done" after it returned
    emailList,     \* the handler's emailList when it returned
    cErr,          \* c.Err
    wBody,         \* what was written to the http.ResponseWriter
    auditLog,      \* records handed to c.LogAuditRec
    calls,         \* collaborator calls made by the handler, in order
    \* ---- one field resolution on a teamMember
    tm,            \* the wrapped model.TeamMember
    session,       \* the requesting session
    sidebar,       \* what GetSidebarCategories holds for (UserId, TeamId)
    rPc,           \* "ready" / "done"
    rField,        \* the field that was resolved
    rRes,          \* the returned value
    rErr,          \* the returned error
    rCalls         \* collaborator calls made by the resolver, in order

matchVars == <<mEmail, mRules, mPc, mResult>>
inviteVars == <<teamIdValid, enableInvites, restrictDomains, teamDomains, reqBody,
                reqGraceful, pc, emailList, cErr, wBody, auditLog, calls>>
resolverVars == <<tm, session, sidebar, rPc, rField, rRes, rErr, rCalls>>
vars == <<matchVars, inviteVars, resolverVars>>

-----------------------------------------------------------------------------
(* Bounds of the model.                                                    *)

MaxRules == 2      \* longest allowedDomains slice given to the matcher alone
MaxBatch == 3      \* longest invitation batch
MaxOrder == 3      \* longest sidebar category order list

-----------------------------------------------------------------------------
(* Go string functions used by the code.                                   *)

\* unicode lower-casing restricted to the letters the model uses
ToLowerChar(ch) ==
    CASE ch = "A" -> "a"
      [] ch = "B" -> "b"
      [] ch = "U" -> "u"
      [] OTHER -> ch

\* strings.ToLower
ToLower(s) == [i \in 1..Len(s) |-> ToLowerChar(s[i])]

\* strings.Replace(s, old, new, -1) for one-character old and new
Replace(s, old, new) == [i \in 1..Len(s) |-> IF s[i] = old THEN new ELSE s[i]]

\* unicode.IsSpace
IsSpace(ch) == ch \in {" ", "\t"}

\* strings.TrimSpace
RECURSIVE TrimLeft(_)
TrimLeft(s) == IF s # <<>> /\ IsSpace(Head(s)) THEN TrimLeft(Tail(s)) ELSE s

RECURSIVE TrimRight(_)
TrimRight(s) ==
    IF s # <<>> /\ IsSpace(s[Len(s)]) THEN TrimRight(SubSeq(s, 1, Len(s) - 1)) ELSE s

TrimSpace(s) == TrimRight(TrimLeft(s))

\* strings.Fields: the maximal runs of non-space characters, in order
RECURSIVE FieldsFrom(_, _, _)
FieldsFrom(s, cur, acc) ==
    IF s = <<>>
    THEN IF cur = <<>> THEN acc ELSE Append(acc, cur)
    ELSE IF IsSpace(Head(s))
         THEN FieldsFrom(Tail(s), <<>>, IF cur = <<>> THEN acc ELSE Append(acc, cur))
         ELSE FieldsFrom(Tail(s), Append(cur, Head(s)), acc)

Fields(s) == FieldsFrom(s, <<>>, <<>>)

\* strings.HasSuffix
HasSuffix(s, suffix) ==
    /\ Len(s) >= Len(suffix)
    /\ SubSeq(s, Len(s) - Len(suffix) + 1, Len(s)) = suffix

\* strings.Join
RECURSIVE Join(_, _)
Join(elems, sep) ==
    IF elems = <<>> THEN <<>>
    ELSE IF Len(elems) = 1 THEN elems[1]
    ELSE elems[1] \o sep \o Join(Tail(elems), sep)

-----------------------------------------------------------------------------
(* The domain restriction matcher.                                         *)

normalizeDomains(domains) ==
    Fields(TrimSpace(ToLower(Replace(Replace(domains, "@", " "), ",", " "))))

\* the inner loop of isEmailAddressAllowed: matched after scanning domains[i..]
RECURSIVE matchedFrom(_, _, _)
matchedFrom(email, domains, i) ==
    IF i > Len(domains) THEN FALSE
    ELSE IF HasSuffix(email, <<"@">> \o domains[i]) THEN TRUE
    ELSE matchedFrom(email, domains, i + 1)

\* the outer loop of isEmailAddressAllowed over allowedDomains[i..]
RECURSIVE allowedFrom(_, _, _)
allowedFrom(email, allowedDomains, i) ==
    IF i > Len(allowedDomains) THEN TRUE
    ELSE LET domains == normalizeDomains(allowedDomains[i])
         IN  IF Len(domains) <= 0 THEN allowedFrom(email, allowedDomains, i + 1)
             ELSE IF ~matchedFrom(email, domains, 1) THEN FALSE
             ELSE allowedFrom(email, allowedDomains, i + 1)

\* a matcher that decides on the first non-empty restriction alone
RECURSIVE firstRuleFrom(_, _, _)
firstRuleFrom(email, allowedDomains, i) ==
    IF i > Len(allowedDomains) THEN TRUE
    ELSE LET domains == normalizeDomains(allowedDomains[i])
         IN  IF Len(domains) <= 0 THEN firstRuleFrom(email, allowedDomains, i + 1)
             ELSE matchedFrom(email, domains, 1)

isEmailAddressAllowedFirstRule(email, allowedDomains) ==
    firstRuleFrom(email, allowedDomains, 1)

isEmailAddressAllowed(email, allowedDomains) == allowedFrom(email, allowedDomains, 1)

-----------------------------------------------------------------------------
(* Inputs.                                                                 *)

\* all sequences over S of length at most n
SeqUpTo(S, n) == UNION {[1..k -> S] : k \in 0..n}

\* restriction strings: empty, blank, separators only, one domain, several
\* domains in the comma/@/space spellings, upper case
RuleStrings ==
    { <<>>,
      <<" ">>,
      <<"@", ",", " ">>,
      <<"a">>,
      <<"b">>,
      <<"@", "a", ",", " ", "b">>,
      <<"A", " ", "@", "b", "a">>,
      <<"B", ",", "b", "a">> }

\* candidate addresses for the matcher, lower case as its callers pass them
MatchEmails ==
    { <<"u", "@", "a">>,
      <<"u", "@", "b">>,
      <<"u", "@", "b", "a">>,
      <<"u", "@", "a", "b">>,
      <<"u", "a">>,
      <<"@", "a">>,
      <<"a", "@", "b", "@", "a">>,
      <<>> }

-----------------------------------------------------------------------------
(* isEmailAddressAllowed called on its own.                                *)

MatchIdle ==
    /\ mEmail = <<>>
    /\ mRules = <<>>
    /\ mPc = "idle"
    /\ mResult = FALSE

InitMatch ==
    /\ mEmail \in MatchEmails
    /\ mRules \in SeqUpTo(RuleStrings, MaxRules)
    /\ mPc = "ready"
    /\ mResult = FALSE

CallIsEmailAddressAllowed ==
    /\ mPc = "ready"
    /\ mResult' = isEmailAddressAllowed(mEmail, mRules)
    /\ mPc' = "done"
    /\ UNCHANGED <<mEmail, mRules>>

-----------------------------------------------------------------------------
(* Values of localInviteUsersToTeam.                                       *)

StatusBadRequest == 400
StatusNotFound == 404
StatusRequestEntityTooLarge == 413
StatusInternalServerError == 500
StatusNotImplemented == 501

\* model.NewAppError(where, id, params, details, status); params is at most
\* one key with a string value, details lists what the detail string carries
NewAppError(where, id, key, val, details, status) ==
    [where |-> where, id |-> id, key |-> key, val |-> val,
     details |-> details, status |-> status]

\* a nil *model.AppError
NoError == NewAppError("", "", "", <<>>, <<>>, 0)

\* one collaborator call: its name, the addresses passed, its result
Call(op, emails, res) == [op |-> op, emails |-> emails, res |-> res]

\* the http.ResponseWriter: nothing written, ReturnStatusOK, or the JSON of
\* invitesWithErrors
NothingWritten == [kind |-> "none", invites |-> <<>>]
StatusOKWritten == [kind |-> "ok", invites |-> <<>>]
InvitesWritten(invites) == [kind |-> "invites", invites |-> invites]

\* what one run of the handler leaves behind
Outcome(err, body, audit, cs, emails) ==
    [err |-> err, body |-> body, audit |-> audit, calls |-> cs, emails |-> emails]

\* results of Store.Team().Get and of EmailService.SendInviteEmails
TeamGetResults == {"ok", "ErrNotFound", "error"}
SendFailures == {"NoRateLimiterError", "SetupRateLimiterError", "RateLimitExceededError"}
SendResults == {"ok"} \cup SendFailures

-----------------------------------------------------------------------------
(* Collaborators of localInviteUsersToTeam that live in other packages.    *)

\* model.IsValidEmail: a lower-case address with one "@" that has a local
\* part before it and a domain after it, and no space or comma
IsValidEmail(email) ==
    /\ email = ToLower(email)
    /\ Cardinality({i \in 1..Len(email) : email[i] = "@"}) = 1
    /\ email[1] # "@"
    /\ email[Len(email)] # "@"
    /\ \A i \in 1..Len(email) : ~IsSpace(email[i]) /\ email[i] # ","

\* c.RequireTeamId: sets c.Err when the team id of the URL is not valid
RequireTeamIdError ==
    IF teamIdValid THEN NoError
    ELSE NewAppError("Context", "api.context.invalid_url_param.app_error", "Name",
                     <<"team_id">>, <<>>, StatusBadRequest)

\* c.SetInvalidParam(parameter)
SetInvalidParam(parameter) ==
    NewAppError("Context", "api.context.invalid_body_param.app_error", "Name",
                <<parameter>>, <<>>, StatusBadRequest)

\* model.EmailInviteWithErrorToString: "email:error"
EmailInviteWithErrorToString(invite) == invite.Email \o <<":">> \o <<invite.Error.id>>

\* a record that starts out successful
MakeAuditRecordSuccess(name, count, emails) ==
    [name |-> name, status |-> "success", count |-> count, emails |-> emails,
     hasErrors |-> FALSE, errors |-> <<>>]

\* lines 93-97: c.MakeAuditRecord(name, audit.Fail) followed by the AddMeta
\* calls; Success() sets the status, the deferred LogAuditRec appends the
\* record to the audit log when the handler returns
MakeAuditRecord(name, count, emails) ==
    [name |-> name, status |-> "fail", count |-> count, emails |-> emails,
     hasErrors |-> FALSE, errors |-> <<>>]

AddMetaErrors(rec, errList) == [rec EXCEPT !.hasErrors = TRUE, !.errors = errList]

Success(rec) == [rec EXCEPT !.status = "success"]

-----------------------------------------------------------------------------
(* localInviteUsersToTeam.                                                 *)

\* lines 84-91: index of the first address of emailList[i..] that fails
\* model.IsValidEmail once lower-cased, 0 when there is none
RECURSIVE firstInvalidFrom(_, _)
firstInvalidFrom(list, i) ==
    IF i > Len(list) THEN 0
    ELSE IF ~IsValidEmail(ToLower(list[i])) THEN i
    ELSE firstInvalidFrom(list, i + 1)

\* index of the last such address, 0 when there is none
RECURSIVE lastInvalidFrom(_, _)
lastInvalidFrom(list, i) ==
    IF i < 1 THEN 0
    ELSE IF ~IsValidEmail(ToLower(list[i])) THEN i
    ELSE lastInvalidFrom(list, i - 1)

\* a validation loop that goes through the whole list and reports the last
\* offending address
validateEmailsLast(list) ==
    LET bad == lastInvalidFrom(list, Len(list))
    IN  [bad |-> bad,
         emails |-> [i \in 1..Len(list) |-> ToLower(list[i])],
         calls |-> [i \in 1..Len(list) |->
                      Call("IsValidEmail", <<ToLower(list[i])>>,
                           IF IsValidEmail(ToLower(list[i])) THEN "true" ELSE "false")]]

\* lines 84-91: the loop stops at the first invalid address; the addresses
\* before it have been replaced by their lower-case form
validateEmails(list) ==
    LET bad == firstInvalidFrom(list, 1)
        upto == IF bad = 0 THEN Len(list) ELSE bad
    IN  [bad |-> bad,
         emails |-> [i \in 1..Len(list) |->
                       IF bad = 0 \/ i < bad THEN ToLower(list[i]) ELSE list[i]],
         calls |-> [i \in 1..upto |->
                      Call("IsValidEmail", <<ToLower(list[i])>>,
                           IF i = bad THEN "false" ELSE "true")]]

\* lines 99-109: the error set when Store.Team().Get fails
teamGetError(teamRes) ==
    IF teamRes = "ErrNotFound"
    THEN NewAppError("localInviteUsersToTeam", "app.team.get.find.app_error", "",
                     <<>>, <<"ErrNotFound">>, StatusNotFound)
    ELSE NewAppError("localInviteUsersToTeam", "app.team.get.finding.app_error", "",
                     <<>>, <<"error">>, StatusInternalServerError)

\* one isEmailAddressAllowed call per address, in order
domainCalls(list, allowedDomains) ==
    [i \in 1..Len(list) |->
       Call("isEmailAddressAllowed", <<list[i]>>,
            IF isEmailAddressAllowed(list[i], allowedDomains) THEN "true" ELSE "false")]

\* lines 152-158: the addresses that fail the domain check, in batch order
RECURSIVE invalidEmailListFrom(_, _, _)
invalidEmailListFrom(list, allowedDomains, i) ==
    IF i > Len(list) THEN <<>>
    ELSE IF ~isEmailAddressAllowed(list[i], allowedDomains)
         THEN <<list[i]>> \o invalidEmailListFrom(list, allowedDomains, i + 1)
         ELSE invalidEmailListFrom(list, allowedDomains, i + 1)

\* a loop that stops at the first address failing the domain check
RECURSIVE invalidEmailListFirst(_, _, _)
invalidEmailListFirst(list, allowedDomains, i) ==
    IF i > Len(list) THEN <<>>
    ELSE IF ~isEmailAddressAllowed(list[i], allowedDomains) THEN <<list[i]>>
    ELSE invalidEmailListFirst(list, allowedDomains, i + 1)

invalidEmailListBreak(list, allowedDomains) == invalidEmailListFirst(list, allowedDomains, 1)

invalidEmailList(list, allowedDomains) == invalidEmailListFrom(list, allowedDomains, 1)

\* lines 116-128: goodEmails, the addresses that pass the domain check
RECURSIVE goodEmailsFrom(_, _, _)
goodEmailsFrom(list, allowedDomains, i) ==
    IF i > Len(list) THEN <<>>
    ELSE IF ~isEmailAddressAllowed(list[i], allowedDomains)
         THEN goodEmailsFrom(list, allowedDomains, i + 1)
         ELSE <<list[i]>> \o goodEmailsFrom(list, allowedDomains, i + 1)

\* a loop that appends every address to goodEmails
goodEmailsAll(list, allowedDomains) == list

goodEmails(list, allowedDomains) == goodEmailsFrom(list, allowedDomains, 1)

\* lines 117-127: invitesWithErrors, one entry per address
invitesWithErrors(list, allowedDomains) ==
    [i \in 1..Len(list) |->
       [Email |-> list[i],
        Error |-> IF ~isEmailAddressAllowed(list[i], allowedDomains)
                  THEN NewAppError("localInviteUsersToTeam",
                                   "api.team.invite_members.invalid_email.app_error",
                                   "Addresses", list[i], <<>>, StatusBadRequest)
                  ELSE NoError]]

\* lines 121-123: errList, the rejected invites as strings
RECURSIVE errListFrom(_, _)
errListFrom(invites, i) ==
    IF i > Len(invites) THEN <<>>
    ELSE IF invites[i].Error # NoError
         THEN <<EmailInviteWithErrorToString(invites[i])>> \o errListFrom(invites, i + 1)
         ELSE errListFrom(invites, i + 1)

\* a translation that leaves c.Err nil
sendInviteErrNil(err) == NoError

\* a translation that takes every failure for an exceeded rate limit
sendInviteErrDefaultOnly(err) ==
    NewAppError("SendInviteEmails", "app.email.rate_limit_exceeded.app_error", "",
                <<>>, <<"team_id", "error">>, StatusRequestEntityTooLarge)

\* lines 133-140: c.Err for a failed SendInviteEmails, graceful branch
sendInviteErrGraceful(err) ==
    CASE err = "NoRateLimiterError" ->
           NewAppError("SendInviteEmails", "app.email.no_rate_limiter.app_error", "",
                       <<>>, <<"team_id">>, StatusInternalServerError)
      [] err = "SetupRateLimiterError" ->
           NewAppError("SendInviteEmails", "app.email.setup_rate_limiter.app_error", "",
                       <<>>, <<"team_id", "error">>, StatusInternalServerError)
      [] OTHER ->
           NewAppError("SendInviteEmails", "app.email.rate_limit_exceeded.app_error", "",
                       <<>>, <<"team_id", "error">>, StatusRequestEntityTooLarge)

\* lines 166-173: c.Err for a failed SendInviteEmails, strict branch
sendInviteErrStrict(err) ==
    CASE err = "NoRateLimiterError" ->
           NewAppError("SendInviteEmails", "app.email.no_rate_limiter.app_error", "",
                       <<>>, <<"team_id">>, StatusInternalServerError)
      [] err = "SetupRateLimiterError" ->
           NewAppError("SendInviteEmails", "app.email.setup_rate_limiter.app_error", "",
                       <<>>, <<"team_id", "error">>, StatusInternalServerError)
      [] OTHER ->
           NewAppError("SendInviteEmails", "app.email.rate_limit_exceeded.app_error", "",
                       <<>>, <<"team_id", "error">>, StatusRequestEntityTooLarge)

\* lines 113-150: the graceful branch, from the domain checks to the return
gracefulBranch(list, allowedDomains, auditRec, sendRes, jsonOk) ==
    LET invites == invitesWithErrors(list, allowedDomains)
        good == goodEmails(list, allowedDomains)
        rec == AddMetaErrors(auditRec, errListFrom(invites, 1))
        checks == domainCalls(list, allowedDomains)
        send == IF Len(good) > 0
                THEN <<Call("SendInviteEmails", good, sendRes)>> ELSE <<>>
        marshal == <<Call("json.Marshal", <<>>, IF jsonOk THEN "ok" ELSE "error")>>
    IN  IF Len(good) > 0 /\ sendRes # "ok"
        THEN Outcome(sendInviteErrGraceful(sendRes), NothingWritten, <<rec>>,
                     checks \o send, list)
        ELSE IF ~jsonOk
        THEN Outcome(NewAppError("localInviteUsersToTeam", "api.marshal_error", "",
                                 <<>>, <<"jsonErr">>, StatusInternalServerError),
                     NothingWritten, <<rec>>, checks \o send \o marshal, list)
        ELSE Outcome(NoError, InvitesWritten(invites), <<Success(rec)>>,
                     checks \o send \o marshal, list)

\* lines 151-177: the strict branch, from the domain checks to the return
strictBranch(list, allowedDomains, auditRec, sendRes) ==
    LET invalid == invalidEmailList(list, allowedDomains)
        checks == domainCalls(list, allowedDomains)
        send == <<Call("SendInviteEmails", list, sendRes)>>
    IN  IF Len(invalid) > 0
        THEN Outcome(NewAppError("localInviteUsersToTeam",
                                 "api.team.invite_members.invalid_email.app_error",
                                 "Addresses", Join(invalid, <<",", " ">>), <<>>,
                                 StatusBadRequest),
                     NothingWritten, <<auditRec>>, checks, list)
        ELSE IF sendRes # "ok"
        THEN Outcome(sendInviteErrStrict(sendRes), NothingWritten, <<auditRec>>,
                     checks \o send, list)
        ELSE Outcome(NoError, StatusOKWritten, <<Success(auditRec)>>,
                     checks \o send, list)

\* lines 68-179: the handler, given what Store.Team().Get, SendInviteEmails
\* and json.Marshal answer when they are called
localInviteUsersToTeam(teamRes, sendRes, jsonOk) ==
    IF RequireTeamIdError # NoError
    THEN Outcome(RequireTeamIdError, NothingWritten, <<>>, <<>>, <<>>)
    ELSE IF ~enableInvites
    THEN Outcome(NewAppError("localInviteUsersToTeam",
                             "api.team.invite_members.disabled.app_error", "",
                             <<>>, <<>>, StatusNotImplemented),
                 NothingWritten, <<>>, <<>>, <<>>)
    ELSE IF Len(reqBody) = 0
    THEN Outcome(SetInvalidParam("user_email"), NothingWritten, <<>>, <<>>, reqBody)
    ELSE
    LET v == validateEmails(reqBody)
    IN  IF v.bad # 0
        THEN Outcome(NewAppError("localInviteUsersToTeam",
                                 "api.team.invite_members.invalid_email.app_error",
                                 "Address", ToLower(reqBody[v.bad]), <<>>,
                                 StatusBadRequest),
                     NothingWritten, <<>>, v.calls, v.emails)
        ELSE
        LET auditRec == MakeAuditRecord("localInviteUsersToTeam", Len(v.emails), v.emails)
            before == v.calls \o <<Call("MakeAuditRecord", <<>>, "fail"),
                                   Call("Store.Team.Get", <<>>, teamRes)>>
        IN  IF teamRes # "ok"
            THEN Outcome(teamGetError(teamRes), NothingWritten, <<auditRec>>,
                         before, v.emails)
            ELSE
            LET allowedDomains == <<teamDomains, restrictDomains>>
                out == IF reqGraceful # ""
                       THEN gracefulBranch(v.emails, allowedDomains, auditRec,
                                           sendRes, jsonOk)
                       ELSE strictBranch(v.emails, allowedDomains, auditRec, sendRes)
            IN  [out EXCEPT !.calls = before \o out.calls]

-----------------------------------------------------------------------------
(* One request to localInviteUsersToTeam.                                  *)

\* raw addresses of a request body: upper case, lower case, a domain that
\* only ends like another one, and two that are no addresses
RawEmails ==
    { <<"U", "@", "a">>,
      <<"v", "@", "b">>,
      <<"w", "@", "b", "a">>,
      <<"x", "a">>,
      <<"A", "@">> }

\* team.AllowedDomains and TeamSettings.RestrictCreationToDomains
TeamRules == { <<>>, <<"@", "a", ",", " ", "b">> }

GlobalRules == { <<>>, <<"B", " ", "b", "a">> }

InviteIdle ==
    /\ teamIdValid = TRUE
    /\ enableInvites = TRUE
    /\ restrictDomains = <<>>
    /\ teamDomains = <<>>
    /\ reqBody = <<>>
    /\ reqGraceful = ""
    /\ pc = "idle"
    /\ emailList = <<>>
    /\ cErr = NoError
    /\ wBody = NothingWritten
    /\ auditLog = <<>>
    /\ calls = <<>>

InitInvite ==
    /\ teamIdValid \in BOOLEAN
    /\ enableInvites \in BOOLEAN
    /\ restrictDomains \in GlobalRules
    /\ teamDomains \in TeamRules
    /\ reqBody \in SeqUpTo(RawEmails, MaxBatch)
    /\ reqGraceful \in {"", "true"}
    /\ pc = "ready"
    /\ emailList = <<>>
    /\ cErr = NoError
    /\ wBody = NothingWritten
    /\ auditLog = <<>>
    /\ calls = <<>>

LocalInviteUsersToTeam ==
    /\ pc = "ready"
    /\ \E teamRes \in TeamGetResults, sendRes \in SendResults, jsonOk \in BOOLEAN :
         LET out == localInviteUsersToTeam(teamRes, sendRes, jsonOk)
         IN  /\ cErr' = out.err
             /\ wBody' = out.body
             /\ auditLog' = out.audit
             /\ calls' = out.calls
             /\ emailList' = out.emails
    /\ pc' = "done"
    /\ UNCHANGED <<teamIdValid, enableInvites, restrictDomains, teamDomains, reqBody,
                   reqGraceful>>

-----------------------------------------------------------------------------
(* The teamMember resolvers.                                               *)

\* a *model.SidebarCategoryWithChannels; a nil pointer has isNil set
Category(id) == [isNil |-> FALSE, Id |-> id]
NilCategory == [isNil |-> TRUE, Id |-> ""]

\* what one field resolution returns, and the collaborator calls it made
Resolved(res, err, cs) == [res |-> res, err |-> err, calls |-> cs]

RCall(op) == [op |-> op]

\* App.SessionHasPermissionToUser: the session of the user itself, or one
\* holding the permission to edit other users
SessionHasPermissionToUser(s, userId) == s.UserId = userId \/ s.elevated

\* lines 47-50: orderMap, filled by ranging over categories.Categories
orderMap(categories) ==
    [id \in {categories[i].Id : i \in 1..Len(categories)} |->
       categories[CHOOSE i \in 1..Len(categories) :
                    /\ categories[i].Id = id
                    /\ \A j \in 1..Len(categories) : categories[j].Id = id => j <= i]]

\* a result that leaves out the ids orderMap does not hold
RECURSIVE presentFrom(_, _, _)
presentFrom(categories, order, i) ==
    IF i > Len(order) THEN <<>>
    ELSE IF order[i] \in DOMAIN orderMap(categories)
         THEN <<orderMap(categories)[order[i]]>> \o presentFrom(categories, order, i + 1)
         ELSE presentFrom(categories, order, i + 1)

orderedCategoriesSkipMissing(categories, order) == presentFrom(categories, order, 1)

\* lines 52-56: res, one entry per id of categories.Order; an id that
\* orderMap does not hold reads as the nil pointer
orderedCategories(categories, order) ==
    [i \in 1..Len(order) |->
       IF order[i] \in DOMAIN orderMap(categories)
       THEN orderMap(categories)[order[i]]
       ELSE NilCategory]

\* lines 19-21
Team(lookupOk) ==
    Resolved(IF lookupOk THEN <<[isNil |-> FALSE, Id |-> tm.TeamId]>> ELSE <<>>,
             IF lookupOk THEN "" ELSE "appErr",
             <<RCall("getGraphQLTeam")>>)

\* lines 24-26
User(lookupOk) ==
    Resolved(IF lookupOk THEN <<[isNil |-> FALSE, Id |-> tm.UserId]>> ELSE <<>>,
             IF lookupOk THEN "" ELSE "appErr",
             <<RCall("getGraphQLUser")>>)

\* a resolver that fetches the categories before it checks the session
SidebarCategoriesFetchFirst(ctxOk, lookupOk) ==
    IF ~ctxOk THEN Resolved(<<>>, "ctxErr", <<RCall("getCtx")>>)
    ELSE IF ~lookupOk
    THEN Resolved(<<>>, "appErr", <<RCall("getCtx"), RCall("GetSidebarCategories")>>)
    ELSE IF ~SessionHasPermissionToUser(session, tm.UserId)
    THEN Resolved(<<>>, "api.context.permissions.app_error",
                  <<RCall("getCtx"), RCall("GetSidebarCategories"),
                    RCall("SessionHasPermissionToUser")>>)
    ELSE Resolved(orderedCategories(sidebar.Categories, sidebar.Order), "",
                  <<RCall("getCtx"), RCall("GetSidebarCategories"),
                    RCall("SessionHasPermissionToUser")>>)

\* lines 29-59
SidebarCategories(ctxOk, lookupOk) ==
    IF ~ctxOk THEN Resolved(<<>>, "ctxErr", <<RCall("getCtx")>>)
    ELSE IF ~SessionHasPermissionToUser(session, tm.UserId)
    THEN Resolved(<<>>, "api.context.permissions.app_error",
                  <<RCall("getCtx"), RCall("SessionHasPermissionToUser")>>)
    ELSE IF ~lookupOk
    THEN Resolved(<<>>, "appErr",
                  <<RCall("getCtx"), RCall("SessionHasPermissionToUser"),
                    RCall("GetSidebarCategories")>>)
    ELSE Resolved(orderedCategories(sidebar.Categories, sidebar.Order), "",
                  <<RCall("getCtx"), RCall("SessionHasPermissionToUser"),
                    RCall("GetSidebarCategories")>>)

\* lines 62-69: the roles asked of getGraphQLRoles are strings.Fields(tm.Roles)
Roles_(ctxOk, lookupOk) ==
    IF ~ctxOk THEN Resolved(<<>>, "ctxErr", <<RCall("getCtx")>>)
    ELSE Resolved(IF lookupOk
                  THEN [i \in 1..Len(Fields(tm.Roles)) |->
                          [isNil |-> FALSE, Id |-> Fields(tm.Roles)[i]]]
                  ELSE <<>>,
                  IF lookupOk THEN "" ELSE "appErr",
                  <<RCall("getCtx"), RCall("getGraphQLRoles")>>)

-----------------------------------------------------------------------------
(* One field resolution.                                                   *)

UserIds == {"u1", "u2"}
CategoryIds == {"c1", "c2", "c3"}
RoleStrings == { <<>>, <<"r", " ", " ", "a">> }

\* the sequences over S without repetition
InjectiveSeqs(S) ==
    {q \in SeqUpTo(S, Cardinality(S)) : \A i, j \in 1..Len(q) : q[i] = q[j] => i = j}

\* categories.Categories as the store supplies them: distinct ids, any order
SuppliedCategories ==
    {[i \in 1..Len(q) |-> Category(q[i])] : q \in InjectiveSeqs(CategoryIds)}

ResolverIdle ==
    /\ tm = [TeamId |-> "", UserId |-> "", Roles |-> <<>>]
    /\ session = [UserId |-> "", elevated |-> FALSE]
    /\ sidebar = [Categories |-> <<>>, Order |-> <<>>]
    /\ rPc = "idle"
    /\ rField = ""
    /\ rRes = <<>>
    /\ rErr = ""
    /\ rCalls = <<>>

InitResolver ==
    /\ tm \in [TeamId : {"t1"}, UserId : UserIds, Roles : RoleStrings]
    /\ session \in [UserId : UserIds, elevated : BOOLEAN]
    /\ sidebar \in [Categories : SuppliedCategories,
                    Order : SeqUpTo(CategoryIds, MaxOrder)]
    /\ rPc = "ready"
    /\ rField = ""
    /\ rRes = <<>>
    /\ rErr = ""
    /\ rCalls = <<>>

Resolve(field, out) ==
    /\ rPc = "ready"
    /\ rPc' = "done"
    /\ rField' = field
    /\ rRes' = out.res
    /\ rErr' = out.err
    /\ rCalls' = out.calls
    /\ UNCHANGED <<tm, session, sidebar>>

ResolveTeam == \E lookupOk \in BOOLEAN : Resolve("Team", Team(lookupOk))

ResolveUser == \E lookupOk \in BOOLEAN : Resolve("User", User(lookupOk))

ResolveSidebarCategories ==
    \E ctxOk \in BOOLEAN, lookupOk \in BOOLEAN :
        Resolve("SidebarCategories", SidebarCategories(ctxOk, lookupOk))

ResolveRoles ==
    \E ctxOk \in BOOLEAN, lookupOk \in BOOLEAN :
        Resolve("Roles_", Roles_(ctxOk, lookupOk))

-----------------------------------------------------------------------------
(* Specifications.                                                         *)

\* isEmailAddressAllowed applied to one address and one list of restrictions
NextMatch == CallIsEmailAddressAllowed /\ UNCHANGED <<inviteVars, resolverVars>>

MatchStart == InitMatch /\ InviteIdle /\ ResolverIdle

SpecMatch == MatchStart /\ [][NextMatch]_vars

\* one request handled by localInviteUsersToTeam
NextInvite == LocalInviteUsersToTeam /\ UNCHANGED <<matchVars, resolverVars>>

InviteStart == InitInvite /\ MatchIdle /\ ResolverIdle

SpecInvite == InviteStart /\ [][NextInvite]_vars

\* one field of one teamMember resolved
NextResolver ==
    \/ ResolveTeam /\ UNCHANGED <<matchVars, inviteVars>>
    \/ ResolveUser /\ UNCHANGED <<matchVars, inviteVars>>
    \/ ResolveSidebarCategories /\ UNCHANGED <<matchVars, inviteVars>>
    \/ ResolveRoles /\ UNCHANGED <<matchVars, inviteVars>>

ResolverStart == InitResolver /\ MatchIdle /\ InviteIdle

SpecResolver == ResolverStart /\ [][NextResolver]_vars

-----------------------------------------------------------------------------
(* What a finished request shows.                                          *)

\* the batch as the handler lower-cases it
Lowered == [i \in 1..Len(reqBody) |-> ToLower(reqBody[i])]

\* the restrictions in force: the team's and the global one
AllowedDomains == <<teamDomains, restrictDomains>>

Rejected(email) == ~isEmailAddressAllowed(email, AllowedDomains)
Accepted(email) == isEmailAddressAllowed(email, AllowedDomains)

IsSend(call) == call.op = "SendInviteEmails"
Sent == SelectSeq(calls, IsSend)

Made(op) == \E i \in 1..Len(calls) : calls[i].op = op

\* the handler got past the format validation of a non-empty batch
PastValidation ==
    /\ pc = "done"
    /\ teamIdValid
    /\ enableInvites
    /\ reqBody # <<>>
    /\ \A i \in 1..Len(reqBody) : IsValidEmail(Lowered[i])

\* the handler found the team and entered the strict or the graceful branch
TeamFound == \E i \in 1..Len(calls) : calls[i].op = "Store.Team.Get" /\ calls[i].res = "ok"

InStrict == pc = "done" /\ TeamFound /\ reqGraceful = ""
InGraceful == pc = "done" /\ TeamFound /\ reqGraceful # ""

\* SendInviteEmails was called and failed
DispatchFailed == \E i \in 1..Len(calls) : IsSend(calls[i]) /\ calls[i].res \in SendFailures
MarshalFailed == \E i \in 1..Len(calls) : calls[i].op = "json.Marshal" /\ calls[i].res = "error"

InvalidEmailId == "api.team.invite_members.invalid_email.app_error"

-----------------------------------------------------------------------------
(* C1: strict mode.  Once the batch passed format validation and the team  *)
(* was found: if some address fails isEmailAddressAllowed, SendInviteEmails*)
(* is not called, nothing is written, and c.Err is one invalid_email error *)
(* whose Addresses parameter is the rejected addresses, and only those,    *)
(* joined with ", " in batch order; if none fails, SendInviteEmails is     *)
(* called once, with the whole lower-cased batch.                          *)
C1_StrictAllOrNothing ==
    InStrict =>
        LET rejected == SelectSeq(Lowered, Rejected)
        IN  /\ rejected # <<>> =>
                /\ Sent = <<>>
                /\ wBody = NothingWritten
                /\ cErr.id = InvalidEmailId
                /\ cErr.status = 400
                /\ cErr.key = "Addresses"
                /\ cErr.val = Join(rejected, <<",", " ">>)
            /\ rejected = <<>> =>
                /\ Len(Sent) = 1
                /\ Sent[1].emails = Lowered

\* a strict batch of three in which the first and the last address are
\* rejected: the error lists both, in order, and nothing was sent
C1_Witness ==
    /\ InStrict
    /\ reqBody = << <<"U", "@", "a">>, <<"v", "@", "b">>, <<"w", "@", "b", "a">> >>
    /\ teamDomains = <<"@", "a", ",", " ", "b">>
    /\ restrictDomains = <<"B", " ", "b", "a">>
    /\ cErr.val = <<"u", "@", "a", ",", " ", "w", "@", "b", "a">>
    /\ Sent = <<>>

(* C2: graceful mode.  Once the batch passed format validation and the team*)
(* was found, and when neither the dispatch nor the serialization failed:  *)
(* the response is one entry per address in batch order, with a nil error  *)
(* exactly for the addresses that pass isEmailAddressAllowed and an        *)
(* invalid_email error for the others; SendInviteEmails is called once with*)
(* the accepted addresses in order when there are any, and not at all when *)
(* every address is rejected.                                              *)
C2_GracefulPerAddress ==
    InGraceful /\ ~DispatchFailed /\ ~MarshalFailed =>
        LET accepted == SelectSeq(Lowered, Accepted)
        IN  /\ wBody.kind = "invites"
            /\ Len(wBody.invites) = Len(reqBody)
            /\ \A i \in 1..Len(reqBody) :
                 /\ wBody.invites[i].Email = Lowered[i]
                 /\ (wBody.invites[i].Error = NoError) <=> Accepted(Lowered[i])
                 /\ Rejected(Lowered[i]) =>
                      /\ wBody.invites[i].Error.id = InvalidEmailId
                      /\ wBody.invites[i].Error.val = Lowered[i]
            /\ accepted # <<>> => Len(Sent) = 1 /\ Sent[1].emails = accepted
            /\ accepted = <<>> => Sent = <<>>

\* a graceful batch of three whose second address is rejected: three
\* entries, the second with an error, and the first and third were sent
C2_Witness ==
    /\ InGraceful
    /\ reqBody = << <<"U", "@", "a">>, <<"w", "@", "b", "a">>, <<"v", "@", "b">> >>
    /\ teamDomains = <<"@", "a", ",", " ", "b">>
    /\ restrictDomains = <<>>
    /\ wBody.kind = "invites"
    /\ Len(wBody.invites) = 3
    /\ wBody.invites[1].Error = NoError
    /\ wBody.invites[2].Error # NoError
    /\ wBody.invites[3].Error = NoError
    /\ Len(Sent) = 1
    /\ Sent[1].emails = << <<"u", "@", "a">>, <<"v", "@", "b">> >>

(* C3 as stated: in graceful mode the response holds one outcome record per*)
(* address whether or not dispatch was attempted and however it ended.     *)
C3_AlwaysOneRecordPerAddress ==
    InGraceful /\ ~MarshalFailed =>
        /\ wBody.kind = "invites"
        /\ Len(wBody.invites) = Len(reqBody)

(* C3 amended: in graceful mode the response holds one outcome record per  *)
(* address, accepted ones with no error and rejected ones with their error,*)
(* exactly when dispatch was not attempted or succeeded; when dispatch was *)
(* attempted and failed nothing is written and c.Err is the dispatch error.*)
C3_RecordsUnlessDispatchFailed ==
    InGraceful /\ ~MarshalFailed =>
        /\ ~DispatchFailed =>
              /\ wBody.kind = "invites"
              /\ Len(wBody.invites) = Len(reqBody)
              /\ \A i \in 1..Len(reqBody) :
                   (wBody.invites[i].Error # NoError) <=> Rejected(Lowered[i])
              /\ cErr = NoError
        /\ DispatchFailed =>
              /\ wBody = NothingWritten
              /\ cErr.where = "SendInviteEmails"

\* a graceful batch with an accepted and a rejected address whose dispatch
\* failed: the partition is not in the response
C3_Witness ==
    /\ InGraceful
    /\ DispatchFailed
    /\ \E i, j \in 1..Len(reqBody) : Accepted(Lowered[i]) /\ Rejected(Lowered[j])
    /\ wBody = NothingWritten
    /\ cErr # NoError

(* C4: whenever SendInviteEmails was called and failed, in either mode, the*)
(* request ends with the error of that failure: c.Err is set by the        *)
(* dispatch translation, neither the status acknowledgement nor the        *)
(* per-address list is written, and the one audit record logged is not     *)
(* marked successful.                                                      *)
C4_DispatchFailureAborts ==
    pc = "done" /\ DispatchFailed =>
        /\ cErr # NoError
        /\ cErr.where = "SendInviteEmails"
        /\ wBody = NothingWritten
        /\ Len(auditLog) = 1
        /\ auditLog[1].status = "fail"

\* a failed dispatch has been seen in strict mode, with nothing written
C4_Witness ==
    /\ InStrict
    /\ DispatchFailed
    /\ Len(Sent[1].emails) = 2
    /\ wBody = NothingWritten
    /\ auditLog[1].status = "fail"

\* the kind of the failed dispatch of a finished request
FailedWith(kind) == \E i \in 1..Len(calls) : IsSend(calls[i]) /\ calls[i].res = kind

(* C5 as stated: a failed dispatch is translated, in both modes, into a    *)
(* ServiceUnavailable (503) error for NoRateLimiterError, an internal (500)*)
(* error for SetupRateLimiterError and a RequestEntityTooLarge (413) error *)
(* for an exceeded rate limit, three distinct classes.                     *)
C5_ThreeDistinctClasses ==
    pc = "done" =>
        /\ FailedWith("NoRateLimiterError") => cErr.status = 503
        /\ FailedWith("SetupRateLimiterError") => cErr.status = 500
        /\ FailedWith("RateLimitExceededError") => cErr.status = 413

(* C5 amended: a failed dispatch is translated, identically in both modes, *)
(* into an internal (500) error with id app.email.no_rate_limiter for      *)
(* NoRateLimiterError, an internal (500) error with id                     *)
(* app.email.setup_rate_limiter carrying the failure detail for            *)
(* SetupRateLimiterError, and a RequestEntityTooLarge (413) error with id  *)
(* app.email.rate_limit_exceeded for an exceeded rate limit: the three     *)
(* kinds have distinct error ids, the first two share the status class.    *)
C5_DispatchErrorTranslation ==
    pc = "done" =>
        /\ FailedWith("NoRateLimiterError") =>
              /\ cErr.status = 500
              /\ cErr.id = "app.email.no_rate_limiter.app_error"
              /\ cErr.details = <<"team_id">>
        /\ FailedWith("SetupRateLimiterError") =>
              /\ cErr.status = 500
              /\ cErr.id = "app.email.setup_rate_limiter.app_error"
              /\ cErr.details = <<"team_id", "error">>
        /\ FailedWith("RateLimitExceededError") =>
              /\ cErr.status = 413
              /\ cErr.id = "app.email.rate_limit_exceeded.app_error"
              /\ cErr.details = <<"team_id", "error">>

\* a strict request whose dispatch met no rate limiter ended with a 500
C5_Witness ==
    /\ InStrict
    /\ FailedWith("NoRateLimiterError")
    /\ cErr.status = 500
    /\ cErr.id = "app.email.no_rate_limiter.app_error"

\* calls that come after the format validation
IsLate(call) ==
    call.op \in {"MakeAuditRecord", "Store.Team.Get", "isEmailAddressAllowed",
                 "SendInviteEmails", "json.Marshal"}

(* C6: early validation.  Once the handler reads the body (team id valid,  *)
(* invitations enabled), in both modes: an empty list ends with the        *)
(* invalid-parameter error for user_email before any format or domain      *)
(* check; a list holding an address that is not valid once lower-cased ends*)
(* with one invalid_email error naming the first such address; in both     *)
(* cases no audit record is made or logged, the team is not looked up, no  *)
(* domain check runs, nothing is sent and nothing is written.              *)
C6_EarlyValidationAborts ==
    pc = "done" /\ teamIdValid /\ enableInvites =>
        /\ reqBody = <<>> =>
              /\ cErr.id = "api.context.invalid_body_param.app_error"
              /\ cErr.val = <<"user_email">>
              /\ cErr.status = 400
              /\ calls = <<>>
              /\ auditLog = <<>>
              /\ wBody = NothingWritten
        /\ (\E i \in 1..Len(reqBody) : ~IsValidEmail(Lowered[i])) =>
              LET first == CHOOSE i \in 1..Len(reqBody) :
                             /\ ~IsValidEmail(Lowered[i])
                             /\ \A j \in 1..(i - 1) : IsValidEmail(Lowered[j])
              IN  /\ cErr.id = InvalidEmailId
                  /\ cErr.key = "Address"
                  /\ cErr.val = Lowered[first]
                  /\ cErr.status = 400
                  /\ SelectSeq(calls, IsLate) = <<>>
                  /\ auditLog = <<>>
                  /\ wBody = NothingWritten

\* a graceful batch with two different invalid addresses after a valid one:
\* the error names the first of them and nothing else happened
C6_Witness ==
    /\ pc = "done"
    /\ reqGraceful # ""
    /\ reqBody = << <<"v", "@", "b">>, <<"A", "@">>, <<"x", "a">> >>
    /\ cErr.val = <<"a", "@">>
    /\ auditLog = <<>>
    /\ Len(calls) = 2

(* C10: for every request that got past format validation exactly one audit*)
(* record is logged; it is marked successful if and only if c.Err is nil   *)
(* when the handler returns: a failed team lookup, a strict domain         *)
(* rejection, a failed dispatch in either mode and a failed serialization  *)
(* all log it with the Fail status, and a strict or graceful return that   *)
(* wrote its response logs it as successful.                               *)
C10_AuditRecordStatus ==
    PastValidation =>
        /\ Len(auditLog) = 1
        /\ Len(SelectSeq(calls, LAMBDA c : c.op = "MakeAuditRecord")) = 1
        /\ (auditLog[1].status = "success") <=> (cErr = NoError)
        /\ ~TeamFound => auditLog[1].status = "fail"
        /\ InStrict /\ (\E i \in 1..Len(reqBody) : Rejected(Lowered[i])) =>
              auditLog[1].status = "fail"
        /\ DispatchFailed => auditLog[1].status = "fail"
        /\ MarshalFailed => auditLog[1].status = "fail"
        /\ wBody # NothingWritten => auditLog[1].status = "success"
        /\ auditLog[1].status = "success" => wBody # NothingWritten
        /\ auditLog[1].count = Len(reqBody)
        /\ auditLog[1].emails = Lowered

\* a strict request refused for its domains logged one failed record
C10_Witness ==
    /\ InStrict
    /\ PastValidation
    /\ cErr.id = InvalidEmailId
    /\ Len(auditLog) = 1
    /\ auditLog[1].status = "fail"

-----------------------------------------------------------------------------
(* What a finished matcher call shows.                                     *)

\* the bare domain suffixes of one restriction string
Suffixes(rule) == {normalizeDomains(rule)[k] : k \in 1..Len(normalizeDomains(rule))}

EndsIn(email, suffix) == HasSuffix(email, <<"@">> \o suffix)

(* C7: isEmailAddressAllowed returns true exactly when, for every rule     *)
(* whose suffix set is not empty, the address ends with "@"+suffix for at  *)
(* least one suffix of that rule; so it returns true for any address when  *)
(* every rule is empty, and for the rules "a", "b" it rejects an address   *)
(* that ends in @a and not in @b.                                          *)
C7_AndAcrossOrWithin ==
    mPc = "done" =>
        /\ mResult = (\A i \in 1..Len(mRules) :
                        Suffixes(mRules[i]) # {} =>
                            \E d \in Suffixes(mRules[i]) : EndsIn(mEmail, d))
        /\ (\A i \in 1..Len(mRules) : Suffixes(mRules[i]) = {}) => mResult = TRUE
        /\ ( /\ mRules = << <<"a">>, <<"b">> >>
             /\ EndsIn(mEmail, <<"a">>)
             /\ ~EndsIn(mEmail, <<"b">>) ) => mResult = FALSE

\* u@a was refused under the two rules "a" and "b"
C7_Witness ==
    /\ mPc = "done"
    /\ mRules = << <<"a">>, <<"b">> >>
    /\ mEmail = <<"u", "@", "a">>
    /\ mResult = FALSE

-----------------------------------------------------------------------------
(* What a finished field resolution shows.                                 *)

RMade(op) == \E i \in 1..Len(rCalls) : rCalls[i].op = op

Supplied(id) == \E j \in 1..Len(sidebar.Categories) : sidebar.Categories[j].Id = id

PermissionDenied == "api.context.permissions.app_error"

(* C8: when the permission check and the fetch succeed, SidebarCategories  *)
(* returns as many entries as the order list has ids; entry i is the       *)
(* supplied category whose id is the i-th id of the order list, whatever   *)
(* the order of the supplied categories, or nil, without error, when no    *)
(* supplied category has that id; a supplied category whose id is not in   *)
(* the order list is not in the result.                                    *)
C8_FollowsOrderList ==
    rPc = "done" /\ rField = "SidebarCategories" /\ rErr = "" =>
        /\ Len(rRes) = Len(sidebar.Order)
        /\ \A i \in 1..Len(sidebar.Order) :
             IF Supplied(sidebar.Order[i])
             THEN /\ ~rRes[i].isNil
                  /\ rRes[i].Id = sidebar.Order[i]
                  /\ \E j \in 1..Len(sidebar.Categories) : sidebar.Categories[j] = rRes[i]
             ELSE rRes[i].isNil
        /\ \A j \in 1..Len(sidebar.Categories) :
             (\A i \in 1..Len(sidebar.Order) : sidebar.Order[i] # sidebar.Categories[j].Id)
                 => \A i \in 1..Len(rRes) : rRes[i] # sidebar.Categories[j]

\* categories supplied as c3, c2, c1 under the order c2, c3 (c1 left out), and
\* categories c3, c2 under the order c2, c1, c3 (c1 missing)
C8_Witness ==
    /\ rPc = "done"
    /\ rField = "SidebarCategories"
    /\ rErr = ""
    /\ sidebar.Categories = <<Category("c3"), Category("c2")>>
    /\ sidebar.Order = <<"c2", "c1", "c3">>
    /\ rRes = <<Category("c2"), NilCategory, Category("c3")>>

(* C9: SidebarCategories, given its context, fails with the permission     *)
(* error whenever the session is neither the member's own nor elevated, and*)
(* then GetSidebarCategories is not called and nothing is returned; Team,  *)
(* User and Roles_ make no permission check of this kind, do not fail with *)
(* it, and never call GetSidebarCategories.                                *)
C9_PermissionGate ==
    rPc = "done" =>
        /\ ( /\ rField = "SidebarCategories"
             /\ rErr # "ctxErr"
             /\ session.UserId # tm.UserId
             /\ ~session.elevated ) =>
                /\ rErr = PermissionDenied
                /\ rRes = <<>>
                /\ ~RMade("GetSidebarCategories")
        /\ rField \in {"Team", "User", "Roles_"} =>
                /\ rErr # PermissionDenied
                /\ ~RMade("SessionHasPermissionToUser")
                /\ ~RMade("GetSidebarCategories")

\* another user's plain session asked for the categories and was refused
C9_Witness ==
    /\ rPc = "done"
    /\ rField = "SidebarCategories"
    /\ tm.UserId = "u1"
    /\ session = [UserId |-> "u2", elevated |-> FALSE]
    /\ rErr = PermissionDenied
    /\ ~RMade("GetSidebarCategories")

====
